---- MODULE Spec2Model ----
(***************************************************************************)
(* The task action dispatcher (createTaskActions) and the row synchronizer *)
(* (updateRow) of the kanban plugin, over a document store (the vault).    *)
(*                                                                         *)
(* Text is a sequence of one-character strings, so that split("\n") and    *)
(* join("\n") are computed character by character.  A document of the      *)
(* vault is its whole text; its lines are split(text).                     *)
(***************************************************************************)
EXTENDS Integers, Sequences, FiniteSets, TLC

VARIABLES
    files,              \* vault: path of each existing document -> its text
    folders,            \* vault: the set of existing folder paths
    tasksByTaskId,      \* Map<string, Task> held for this render
    metadataByTaskId,   \* Map<string, Metadata> held for this render
    calls,              \* the dispatcher calls: their position and updateRow frames
    lastWrite,          \* per document: <<call, frame>> of the last vault.modify, or <<>>
    heap                \* the objects of the chooser's folder trees; heap[1] is Object.prototype

vars == <<files, folders, tasksByTaskId, metadataByTaskId, calls, lastWrite, heap>>

----------------------------------------------------------------------------
(* Bounds *)

\* number of lines of an initial document
MaxLines == 3
\* number of dispatcher calls in flight together
MaxCalls == 2

----------------------------------------------------------------------------
(* Text *)

NL == "\n"

\* String.prototype.split("\n"): always at least one piece
RECURSIVE split(_)
split(s) ==
    IF \A i \in 1..Len(s) : s[i] # NL
    THEN <<s>>
    ELSE LET i == CHOOSE i \in 1..Len(s) :
                     s[i] = NL /\ \A j \in 1..(i - 1) : s[j] # NL
         IN  <<SubSeq(s, 1, i - 1)>> \o split(SubSeq(s, i + 1, Len(s)))

\* Array.prototype.join("\n"): the empty array joins to the empty string
RECURSIVE join(_)
join(rows) ==
    IF rows = <<>> THEN <<>>
    ELSE IF Len(rows) = 1 THEN rows[1]
    ELSE rows[1] \o <<NL>> \o join(Tail(rows))

----------------------------------------------------------------------------
(* updateRow: the computation between the read and the write *)

\* the `row` argument when it is undefined (row: number | undefined)
undefined == -1

\* if (row == null) row = rows.length      (row is a 0-based index)
targetRowAppendsLast(rows, row) == IF row = undefined THEN Len(rows) - 1 ELSE row
targetRow(rows, row) == IF row = undefined THEN Len(rows) ELSE row

\* if (rows.length < row) return
stale(rows, row) == Len(rows) < row

\* a splice that removes nothing
spliceNothing(rows, row) == rows
\* rows.splice(row, 1): drops the element at 0-based index row, if there is one
splice(rows, row) ==
    IF row < Len(rows)
    THEN [i \in 1..(Len(rows) - 1) |-> IF i <= row THEN rows[i] ELSE rows[i + 1]]
    ELSE rows

\* an assignment that drops what follows the row
assignTruncates(rows, row, newText) == SubSeq(rows, 1, row) \o <<newText>>

\* rows[row] = newText: an index past the end extends the array, and the holes
\* it leaves join as empty strings
assign(rows, row, newText) ==
    IF row < Len(rows)
    THEN [rows EXCEPT ![row + 1] = newText]
    ELSE rows \o [i \in 1..(row - Len(rows)) |-> <<>>] \o <<newText>>

\* a splice(row, 0, newText) in place of the assignment
patchInserts(rows, row, newText) ==
    IF newText = <<>> THEN splice(rows, row)
    ELSE SubSeq(rows, 1, row) \o <<newText>> \o SubSeq(rows, row + 1, Len(rows))
\* the assignment in both branches: an empty newText blanks the line
patchBlanks(rows, row, newText) == assign(rows, row, newText)
\* if (newText === "") rows.splice(row, 1); else rows[row] = newText
patch(rows, row, newText) ==
    IF newText = <<>> THEN splice(rows, row) ELSE assign(rows, row, newText)

----------------------------------------------------------------------------
(* The Task model and the line grammar (./task is not among the sources) *)

Ids == {"t1", "t2", "t3", "t4"}

todo == <<"t">>
doing == <<"d">>
archived == <<"z">>
Columns == {todo, doing}
Contents == {<<"m">>, <<"w">>, <<"k">>}

\* "- [ ] " / "- [x] ", the content, " #" and the column tag; a deleted task
\* serialises to the empty string
serialise(task) ==
    IF task.deleted THEN <<>>
    ELSE <<"-", " ", "[", (IF task.done THEN "x" ELSE " "), "]", " ">>
         \o task.content \o <<" ", "#">> \o task.column

\* an updater that leaves the task as it is
applyNothing(op, arg, task) == task
\* the updaters the dispatcher passes to updateRowWithTask
applyUpdater(op, arg, task) ==
    CASE op = "changeColumn"  -> [task EXCEPT !.column = arg]
      [] op = "markDone"      -> [task EXCEPT !.done = TRUE]
      [] op = "updateContent" -> [task EXCEPT !.content = arg]
      [] op = "archiveTasks"  -> [task EXCEPT !.column = archived]
      [] op = "deleteTask"    -> [task EXCEPT !.deleted = TRUE]

\* `- [ ]  #${column}`
blankLine(column) == <<"-", " ", "[", " ", "]", " ", " ", "#">> \o column

----------------------------------------------------------------------------
(* Calls and updateRow frames *)

Calls == 1..MaxCalls

idleCall ==
    [op |-> "none", pc |-> "idle", ids |-> <<>>, arg |-> <<>>, frames |-> <<>>,
     ops |-> <<>>, applied |-> <<>>, handled |-> <<>>,
     fullPath |-> <<>>, folderPath |-> <<>>, chooser |-> FALSE, view |-> <<>>,
     target |-> FALSE, menus |-> <<>>,
     defaultTaskPath |-> <<>>, currentFilePath |-> <<>>]

\* updateRow(vault, fileHandle, row, newText) up to its `await vault.read`
newFrame(id, fileHandle, row, newText, awaited) ==
    [id |-> id, fileHandle |-> fileHandle, row |-> row, newText |-> newText,
     pc |-> "read", file |-> <<>>, newFile |-> <<>>,
     dirty |-> FALSE, awaited |-> awaited]

settled(f) == f.pc \in {"done", "returned", "failed"}

\* one store operation of a call, as the call saw it end
storeOp(kind, path, ok) == [kind |-> kind, path |-> path, ok |-> ok, found |-> FALSE]
\* an existence check that ended, with its answer
existsOp(path, found) == [kind |-> "exists", path |-> path, ok |-> TRUE, found |-> found]

\* the operation's promise resolves once nothing is left on its list and every
\* updateRow it awaits has returned
settle(call) ==
    IF /\ call.pc = "running"
       /\ call.ids = <<>>
       /\ \A k \in 1..Len(call.frames) :
             call.frames[k].awaited => call.frames[k].pc \in {"done", "returned"}
    THEN [call EXCEPT !.pc = "resolved"]
    ELSE call

\* a rejected store operation rejects updateRow; the caller awaits it in
\* updateRowWithTask and in the operation, with no try/catch on the way, so an
\* awaited frame's failure rejects the call
swallowFailure(call, f) == call.pc
\* every failure reaching the operation's caller, awaited or not
deliverFailure(call, f) == "rejected"
afterFailure(call, f) ==
    IF f.awaited /\ call.pc = "running" THEN "rejected" ELSE call.pc

\* const file = await vault.read(fileHandle): the read ends, and the frame runs
\* to its early return or to its `await vault.modify`
\* vault.read(fileHandle) gives the document as it is in the vault now (a
\* read that kept what an earlier updateRow of the call had read would be the
\* other one)
readCached(call, f) ==
    IF \E j \in 1..Len(call.frames) :
          call.frames[j].fileHandle = f.fileHandle /\ call.frames[j].pc # "read"
    THEN call.frames[CHOOSE j \in 1..Len(call.frames) :
            call.frames[j].fileHandle = f.fileHandle /\ call.frames[j].pc # "read"].file
    ELSE files[f.fileHandle]
read(call, f) == files[f.fileHandle]

updateRowRead(c, k) ==
    LET call == calls[c]
        f == call.frames[k]
        file == read(call, f)
        rows == split(file)
        row == targetRow(rows, f.row)
        g == IF stale(rows, row)
             THEN [f EXCEPT !.pc = "returned", !.file = file]
             ELSE [f EXCEPT !.pc = "modify", !.file = file,
                            !.newFile = join(patch(rows, row, f.newText))]
    IN  /\ f.pc = "read"
        /\ f.fileHandle \in DOMAIN files
        /\ calls' = [calls EXCEPT ![c] =
              settle([call EXCEPT !.frames[k] = g,
                                  !.ops = Append(@, storeOp("read", f.fileHandle, TRUE))])]
        /\ UNCHANGED <<files, folders, tasksByTaskId, metadataByTaskId, lastWrite, heap>>

\* the text vault.modify stores: the whole newFile computed from the read
\* (a write that patched the document as it is now would be the other one)
writtenTextPatchesCurrent(f, current) ==
    join(patch(split(current), targetRow(split(current), f.row), f.newText))
writtenText(f, current) == f.newFile

\* await vault.modify(fileHandle, newFile): the write ends and updateRow returns.
\* Every other frame that has read this document and not yet written has now
\* read a document that is no longer there (dirty).
updateRowModify(c, k) ==
    LET f == calls[c].frames[k]
    IN  /\ f.pc = "modify"
        /\ f.fileHandle \in DOMAIN files
        /\ files' = [files EXCEPT ![f.fileHandle] = writtenText(f, @)]
        /\ lastWrite' = [lastWrite EXCEPT ![f.fileHandle] = <<c, k>>]
        /\ calls' = [d \in Calls |->
            settle(
              [calls[d] EXCEPT
                 !.frames = [j \in 1..Len(calls[d].frames) |->
                    LET h == calls[d].frames[j]
                    IN  IF d = c /\ j = k
                        THEN [h EXCEPT !.pc = "done"]
                        ELSE IF h.pc = "modify" /\ h.fileHandle = f.fileHandle
                        THEN [h EXCEPT !.dirty = TRUE]
                        ELSE h],
                 !.ops = IF d = c
                         THEN Append(@, storeOp("modify", f.fileHandle, TRUE))
                         ELSE @])]
        /\ UNCHANGED <<folders, tasksByTaskId, metadataByTaskId, heap>>

\* vault.read rejects: updateRow throws at its first await
readFails(c, k) ==
    LET call == calls[c]
        f == call.frames[k]
    IN  /\ f.pc = "read"
        /\ calls' = [calls EXCEPT ![c] =
              [call EXCEPT !.frames[k] = [f EXCEPT !.pc = "failed"],
                           !.ops = Append(@, storeOp("read", f.fileHandle, FALSE)),
                           !.pc = afterFailure(call, f)]]
        /\ UNCHANGED <<files, folders, tasksByTaskId, metadataByTaskId, lastWrite, heap>>

\* vault.modify rejects: the document keeps its text and updateRow throws
modifyFails(c, k) ==
    LET call == calls[c]
        f == call.frames[k]
    IN  /\ f.pc = "modify"
        /\ calls' = [calls EXCEPT ![c] =
              [call EXCEPT !.frames[k] = [f EXCEPT !.pc = "failed"],
                           !.ops = Append(@, storeOp("modify", f.fileHandle, FALSE)),
                           !.pc = afterFailure(call, f)]]
        /\ UNCHANGED <<files, folders, tasksByTaskId, metadataByTaskId, lastWrite, heap>>

----------------------------------------------------------------------------
(* The dispatcher: createTaskActions *)

hasMetadata(id) == id \in DOMAIN metadataByTaskId
hasTask(id) == id \in DOMAIN tasksByTaskId

\* if (!metadata || !task) return
missingBoth(id) == ~hasMetadata(id) /\ ~hasTask(id)
missing(id) == ~hasMetadata(id) \/ ~hasTask(id)

\* updateRowWithTask(id, updater), run from its call to its `await updateRow`,
\* that is to updateRow's `await vault.read`. `call` is the caller's record
\* with this id already taken off its list.  Past the guard, updater(task) on
\* an undefined task and metadata.fileHandle on an undefined metadata throw.
updateRowWithTask(c, call, id) ==
    /\ IF missing(id)
       THEN /\ calls' = [calls EXCEPT ![c] =
                  settle([call EXCEPT !.handled = Append(@, id)])]
            /\ UNCHANGED tasksByTaskId
       ELSE IF ~hasTask(id)
       THEN /\ calls' = [calls EXCEPT ![c] =
                  [call EXCEPT !.handled = Append(@, id), !.pc = "rejected"]]
            /\ UNCHANGED tasksByTaskId
       ELSE LET task == applyUpdater(call.op, call.arg, tasksByTaskId[id])
            IN  /\ tasksByTaskId' = [tasksByTaskId EXCEPT ![id] = task]
                /\ IF ~hasMetadata(id)
                   THEN calls' = [calls EXCEPT ![c] =
                          [call EXCEPT !.handled = Append(@, id),
                                       !.applied = Append(@, id),
                                       !.pc = "rejected"]]
                   ELSE calls' = [calls EXCEPT ![c] =
                          [call EXCEPT !.handled = Append(@, id),
                                       !.applied = Append(@, id),
                                       !.frames = Append(@,
                                           newFrame(id,
                                                    metadataByTaskId[id].fileHandle,
                                                    metadataByTaskId[id].rowIndex,
                                                    serialise(task), TRUE))]]
    /\ UNCHANGED <<files, folders, metadataByTaskId, lastWrite, heap>>

\* a call is made; the calls are numbered in the order they are made
mayStart(c) ==
    /\ calls[c].pc = "idle"
    /\ IF c = 1 THEN TRUE ELSE calls[c - 1].pc # "idle"

started(c, op, arg, ids) ==
    [calls[c] EXCEPT !.op = op, !.pc = "running", !.arg = arg, !.ids = ids]

changeColumn(c, id, column) ==
    /\ mayStart(c)
    /\ updateRowWithTask(c, started(c, "changeColumn", column, <<>>), id)

markDone(c, id) ==
    /\ mayStart(c)
    /\ updateRowWithTask(c, started(c, "markDone", <<>>, <<>>), id)

updateContent(c, id, content) ==
    /\ mayStart(c)
    /\ updateRowWithTask(c, started(c, "updateContent", content, <<>>), id)

deleteTask(c, id) ==
    /\ mayStart(c)
    /\ updateRowWithTask(c, started(c, "deleteTask", <<>>, <<>>), id)

\* for (const id of ids) { await updateRowWithTask(...) }: the first iteration
\* runs with the call
archiveTasks(c, ids) ==
    /\ mayStart(c)
    /\ IF ids = <<>>
       THEN /\ calls' = [calls EXCEPT ![c] =
                  settle(started(c, "archiveTasks", <<>>, <<>>))]
            /\ UNCHANGED <<files, folders, tasksByTaskId, metadataByTaskId, lastWrite, heap>>
       ELSE updateRowWithTask(c, started(c, "archiveTasks", <<>>, Tail(ids)), Head(ids))

\* the loop's await: the next iteration starts when the updateRowWithTask
\* before it has returned
loopDoesNotAwait(call) == TRUE
loopAwaits(call) == \A k \in 1..Len(call.frames) : settled(call.frames[k])

archiveNext(c) ==
    LET call == calls[c]
    IN  /\ call.op = "archiveTasks"
        /\ call.pc = "running"
        /\ call.ids # <<>>
        /\ loopAwaits(call)
        /\ updateRowWithTask(c, [call EXCEPT !.ids = Tail(@)], Head(call.ids))

----------------------------------------------------------------------------
(* Spec: one render's maps over two documents, and dispatcher calls made    *)
(* while earlier ones are still in flight.                                  *)

boardDoc == <<"n", ".", "m", "d">>
otherDoc == <<"o", ".", "m", "d">>
noteLine == <<"n", "b">>

\* the scan's result: t1 and t2 are lines 0 and 1 of boardDoc; t3 has a task
\* and no metadata, t4 metadata and no task
scannedTasks ==
    [id \in {"t1", "t2", "t3"} |->
        [column |-> todo, done |-> FALSE, deleted |-> FALSE,
         content |-> CASE id = "t1" -> <<"m">> [] id = "t2" -> <<"w">> [] OTHER -> <<"k">>]]
scannedMetadata ==
    [id \in {"t1", "t2", "t4"} |->
        CASE id = "t1" -> [fileHandle |-> boardDoc, rowIndex |-> 0]
          [] id = "t2" -> [fileHandle |-> boardDoc, rowIndex |-> 1]
          [] OTHER     -> [fileHandle |-> otherDoc, rowIndex |-> 0]]

NewColumns == {doing}
NewContents == {<<"k">>}
ArchiveLists ==
    {<<>>, <<"t1", "t2">>, <<"t3", "t1">>, <<"t1", "t4", "t2">>}

Init ==
    /\ files = [p \in {boardDoc, otherDoc} |->
                  IF p = boardDoc
                  THEN join(<<serialise(scannedTasks["t1"]),
                              serialise(scannedTasks["t2"]), noteLine>>)
                  ELSE noteLine]
    /\ folders = {}
    /\ tasksByTaskId = scannedTasks
    /\ metadataByTaskId = scannedMetadata
    /\ calls = [c \in Calls |-> idleCall]
    /\ lastWrite = [p \in {boardDoc, otherDoc} |-> <<>>]
    /\ heap = << <<>> >>

Next ==
    \E c \in Calls :
        \/ \E id \in Ids, column \in NewColumns : changeColumn(c, id, column)
        \/ \E id \in Ids : markDone(c, id)
        \/ \E id \in Ids, content \in NewContents : updateContent(c, id, content)
        \/ \E ids \in ArchiveLists : archiveTasks(c, ids)
        \/ \E id \in Ids : deleteTask(c, id)
        \/ archiveNext(c)
        \/ \E k \in 1..Len(calls[c].frames) : updateRowRead(c, k)
        \/ \E k \in 1..Len(calls[c].frames) : updateRowModify(c, k)

Spec == Init /\ [][Next]_vars

----------------------------------------------------------------------------
(* SpecFail: the same render over a store whose read and modify may reject. *)

FailIds == {"t1"}
FailLists == {<<"t1", "t2">>, <<"t1", "t4", "t2">>}

NextFail ==
    \E c \in Calls :
        \/ \E id \in FailIds, column \in NewColumns : changeColumn(c, id, column)
        \/ \E id \in FailIds : markDone(c, id)
        \/ \E id \in FailIds, content \in NewContents : updateContent(c, id, content)
        \/ \E ids \in FailLists : archiveTasks(c, ids)
        \/ \E id \in FailIds : deleteTask(c, id)
        \/ archiveNext(c)
        \/ \E k \in 1..Len(calls[c].frames) : updateRowRead(c, k)
        \/ \E k \in 1..Len(calls[c].frames) : updateRowModify(c, k)
        \/ \E k \in 1..Len(calls[c].frames) : readFails(c, k)
        \/ \E k \in 1..Len(calls[c].frames) : modifyFails(c, k)

SpecFail == Init /\ [][NextFail]_vars

----------------------------------------------------------------------------
(* SpecRace: line edits of t1 and t2 in boardDoc, with the document also     *)
(* edited from outside the dispatcher (the user types in the editor).        *)

editLine == <<"e">>

\* an external edit adds a line at the end of the document; every updateRow
\* that has read the document and not yet written has now read an old text
externalEdit(path) ==
    /\ Len(split(files[path])) <= MaxLines
    /\ files' = [files EXCEPT ![path] = join(Append(split(@), editLine))]
    /\ lastWrite' = [lastWrite EXCEPT ![path] = <<0, 0>>]
    /\ calls' = [d \in Calls |->
          [calls[d] EXCEPT
             !.frames = [j \in 1..Len(calls[d].frames) |->
                LET h == calls[d].frames[j]
                IN  IF h.pc = "modify" /\ h.fileHandle = path
                    THEN [h EXCEPT !.dirty = TRUE]
                    ELSE h]]]
    /\ UNCHANGED <<folders, tasksByTaskId, metadataByTaskId, heap>>

NextRace ==
    \E c \in Calls :
        \/ \E column \in NewColumns : changeColumn(c, "t1", column)
        \/ markDone(c, "t2")
        \/ deleteTask(c, "t1")
        \/ externalEdit(boardDoc)
        \/ \E k \in 1..Len(calls[c].frames) : updateRowRead(c, k)
        \/ \E k \in 1..Len(calls[c].frames) : updateRowModify(c, k)

SpecRace == Init /\ [][NextRace]_vars

----------------------------------------------------------------------------
(* SpecStale: one render in which t1 (line 0) is deleted and edited and t2   *)
(* (line 1) is edited, over a board whose last line is t2's or a note.       *)

InitStale ==
    /\ \E tail \in {<<>>, <<noteLine>>} :
         files = [p \in {boardDoc, otherDoc} |->
                    IF p = boardDoc
                    THEN join(<<serialise(scannedTasks["t1"]),
                                serialise(scannedTasks["t2"])>> \o tail)
                    ELSE noteLine]
    /\ folders = {}
    /\ tasksByTaskId = scannedTasks
    /\ metadataByTaskId = scannedMetadata
    /\ calls = [c \in Calls |-> idleCall]
    /\ lastWrite = [p \in {boardDoc, otherDoc} |-> <<>>]
    /\ heap = << <<>> >>

NextStale ==
    \E c \in Calls :
        \/ deleteTask(c, "t1")
        \/ \E content \in NewContents : updateContent(c, "t1", content)
        \/ \E column \in NewColumns : changeColumn(c, "t2", column)
        \/ markDone(c, "t2")
        \/ \E k \in 1..Len(calls[c].frames) : updateRowRead(c, k)
        \/ \E k \in 1..Len(calls[c].frames) : updateRowModify(c, k)

SpecStale == InitStale /\ [][NextStale]_vars

----------------------------------------------------------------------------
(* SpecMem: a render whose scan found t1 on line 0 and t2 on line 2 of the   *)
(* board; since then the board may have been cut to its first line from      *)
(* outside.  The store may reject reads and writes.                          *)

cutMetadata == [scannedMetadata EXCEPT !["t2"].rowIndex = 2]

InitMem ==
    /\ \E world \in {"synced", "cut"} :
         files = [p \in {boardDoc, otherDoc} |->
                    IF p = otherDoc THEN noteLine
                    ELSE IF world = "cut" THEN serialise(scannedTasks["t1"])
                    ELSE join(<<serialise(scannedTasks["t1"]), noteLine,
                                serialise(scannedTasks["t2"])>>)]
    /\ folders = {}
    /\ tasksByTaskId = scannedTasks
    /\ metadataByTaskId = cutMetadata
    /\ calls = [c \in Calls |-> idleCall]
    /\ lastWrite = [p \in {boardDoc, otherDoc} |-> <<>>]
    /\ heap = << <<>> >>

NextMem ==
    \E c \in Calls :
        \/ \E column \in NewColumns : changeColumn(c, "t2", column)
        \/ markDone(c, "t1")
        \/ \E content \in NewContents : updateContent(c, "t1", content)
        \/ archiveTasks(c, <<"t2">>)
        \/ deleteTask(c, "t2")
        \/ \E k \in 1..Len(calls[c].frames) : updateRowRead(c, k)
        \/ \E k \in 1..Len(calls[c].frames) : updateRowModify(c, k)
        \/ \E k \in 1..Len(calls[c].frames) : readFails(c, k)
        \/ \E k \in 1..Len(calls[c].frames) : modifyFails(c, k)

SpecMem == InitMem /\ [][NextMem]_vars

----------------------------------------------------------------------------
(* viewFile, and SpecView: viewFile calls made among line edits *)

\* if (!metadata) return
viewMissingTask(id) == ~hasTask(id)
viewMissing(id) == ~hasMetadata(id)

\* one action on the presentation layer: a document opened in a tab, or the
\* cursor of the active editor set to a row
viewOp(kind, path, row) == [kind |-> kind, path |-> path, row |-> row]

\* viewFile(id), run to its `await leaf.openFile(fileHandle)`.  Past the guard,
\* destructuring an undefined metadata throws.
viewFile(c, id) ==
    LET call == [started(c, "viewFile", <<>>, <<>>) EXCEPT !.handled = <<id>>]
    IN  /\ mayStart(c)
        /\ calls' = [calls EXCEPT ![c] =
              IF viewMissing(id) THEN [call EXCEPT !.pc = "resolved"]
              ELSE IF ~hasMetadata(id) THEN [call EXCEPT !.pc = "rejected"]
              ELSE [call EXCEPT
                      !.pc = "openFile",
                      !.fullPath = metadataByTaskId[id].fileHandle,
                      !.arg = metadataByTaskId[id].rowIndex,
                      !.view = <<viewOp("openFile", metadataByTaskId[id].fileHandle,
                                        undefined)>>]]
        /\ UNCHANGED <<files, folders, tasksByTaskId, metadataByTaskId, lastWrite, heap>>

\* openFile has ended: workspace.getActiveViewOfType(MarkdownView) gives an
\* editor view or null, and editorView?.editor.setCursor(rowIndex)
viewFileOpened(c, editorView) ==
    LET call == calls[c]
    IN  /\ call.op = "viewFile"
        /\ call.pc = "openFile"
        /\ calls' = [calls EXCEPT ![c] =
              [call EXCEPT
                 !.pc = "resolved",
                 !.view = IF editorView
                          THEN Append(@, viewOp("setCursor", call.fullPath, call.arg))
                          ELSE @]]
        /\ UNCHANGED <<files, folders, tasksByTaskId, metadataByTaskId, lastWrite, heap>>

NextView ==
    \E c \in Calls :
        \/ \E id \in Ids : viewFile(c, id)
        \/ \E editorView \in BOOLEAN : viewFileOpened(c, editorView)
        \/ \E id \in FailIds, column \in NewColumns : changeColumn(c, id, column)
        \/ \E id \in FailIds : deleteTask(c, id)
        \/ \E k \in 1..Len(calls[c].frames) : updateRowRead(c, k)
        \/ \E k \in 1..Len(calls[c].frames) : updateRowModify(c, k)

SpecView == Init /\ [][NextView]_vars

----------------------------------------------------------------------------
(* addNew: the configured default path *)

\* String.prototype.trim
RECURSIVE trimStart(_)
trimStart(s) ==
    IF s # <<>> /\ s[1] \in {" ", "\t", NL} THEN trimStart(Tail(s)) ELSE s
RECURSIVE trimEnd(_)
trimEnd(s) ==
    IF s # <<>> /\ s[Len(s)] \in {" ", "\t", NL}
    THEN trimEnd(SubSeq(s, 1, Len(s) - 1)) ELSE s
trim(s) == trimEnd(trimStart(s))

\* no replace: the joined path as it is
keepSlashes(s) == s

\* /^[/\\]/.test(defaultTaskPath)
isAbsolutePath(path) == path # <<>> /\ path[1] \in {"/", "\\"}

\* .replace(/\/+/g, "/")
RECURSIVE collapseSlashes(_)
collapseSlashes(s) ==
    IF Len(s) <= 1 THEN s
    ELSE IF s[1] = "/" /\ s[2] = "/" THEN collapseSlashes(Tail(s))
    ELSE <<s[1]>> \o collapseSlashes(Tail(s))

endsWith(s, suffix) ==
    Len(s) >= Len(suffix) /\ SubSeq(s, Len(s) - Len(suffix) + 1, Len(s)) = suffix

\* String.prototype.lastIndexOf: 0-based, -1 when there is none
lastIndexOf(s, ch) ==
    IF \E i \in 1..Len(s) : s[i] = ch
    THEN (CHOOSE i \in 1..Len(s) : s[i] = ch /\ \A j \in (i + 1)..Len(s) : s[j] # ch) - 1
    ELSE 0 - 1

\* s.substring(0, end): a negative end counts as 0
substring0(s, end) == SubSeq(s, 1, IF end < 0 THEN 0 ELSE end)

dotMd == <<".", "m", "d">>

\* fullPath, from the setting and the active file's parent path
resolveFullPath(defaultTaskPath, currentFilePath) ==
    LET joined == IF isAbsolutePath(defaultTaskPath)
                  THEN defaultTaskPath
                  ELSE collapseSlashes(currentFilePath \o <<"/">> \o defaultTaskPath)
    IN  IF ~endsWith(joined, <<"/">>) /\ ~endsWith(joined, <<"\\">>)
           /\ ~endsWith(joined, dotMd)
        THEN joined \o dotMd
        ELSE joined

\* fullPath.substring(0, fullPath.lastIndexOf("/"))
folderPathOf(fullPath) == substring0(fullPath, lastIndexOf(fullPath, "/"))

\* vault.adapter.exists(path): a document or a folder is there (a folder also
\* under its name with a trailing separator)
vaultExists(path) ==
    \/ path \in DOMAIN files
    \/ path \in folders
    \/ (endsWith(path, <<"/">>) /\ SubSeq(path, 1, Len(path) - 1) \in folders)

\* vault.getAbstractFileByPath(fullPath) instanceof TFile
isTFile(fs, path) == path \in DOMAIN fs

----------------------------------------------------------------------------
(* addNew: the chooser.  The folder tree is made of plain objects ({}), so a *)
(* lookup by segment also sees what Object.prototype holds, and the segment  *)
(* __proto__ reads and sets an object's prototype.  The objects live in      *)
(* `heap`: an object is a function from its own enumerable keys to values.   *)

protoKey == <<"_", "_", "p", "r", "o", "t", "o", "_", "_">>
ObjectPrototype == 1

null == [kind |-> "null"]
tfile(path) == [kind |-> "file", path |-> path]
object(ref) == [kind |-> "object", ref |-> ref]

\* file.path.split("/")
RECURSIVE segments(_)
segments(path) ==
    IF \A i \in 1..Len(path) : path[i] # "/"
    THEN <<path>>
    ELSE LET i == CHOOSE i \in 1..Len(path) :
                     path[i] = "/" /\ \A j \in 1..(i - 1) : path[j] # "/"
         IN  <<SubSeq(path, 1, i - 1)>> \o segments(SubSeq(path, i + 1, Len(path)))

\* a.path.localeCompare(b.path): character by character in collation order
\* (punctuation before letters), a prefix before what it is a prefix of
collation == <<"_", ".", "/", "a", "b", "d", "i", "m", "n", "o", "p", "r", "t", "x">>
rank(ch) == CHOOSE i \in 1..Len(collation) : collation[i] = ch
RECURSIVE localeCompare(_, _)
localeCompare(a, b) ==
    IF a = <<>> /\ b = <<>> THEN 0
    ELSE IF a = <<>> THEN 0 - 1
    ELSE IF b = <<>> THEN 1
    ELSE IF rank(a[1]) < rank(b[1]) THEN 0 - 1
    ELSE IF rank(a[1]) > rank(b[1]) THEN 1
    ELSE localeCompare(Tail(a), Tail(b))

\* vault.getMarkdownFiles(): the documents with extension md
getMarkdownFiles(fs) == {path \in DOMAIN fs : endsWith(path, dotMd)}

\* .sort((a, b) => a.path.localeCompare(b.path))
RECURSIVE sortedFiles(_)
sortedFiles(S) ==
    IF S = {} THEN <<>>
    ELSE LET first == CHOOSE a \in S : \A b \in S : localeCompare(a, b) <= 0
         IN  <<first>> \o sortedFiles(S \ {first})

\* currFolder[segment]: the own property, else the one inherited from
\* Object.prototype, else undefined; __proto__ gives the object's prototype
get(h, o, key) ==
    IF key = protoKey
    THEN (IF o = ObjectPrototype THEN null ELSE object(ObjectPrototype))
    ELSE IF key \in DOMAIN h[o] THEN h[o][key]
    ELSE IF key \in DOMAIN h[ObjectPrototype] THEN h[ObjectPrototype][key]
    ELSE null

\* currFolder[segment] = value: an own property; under __proto__ the
\* prototype is set instead (to the prototype the object has) and no property
\* is made
set(h, o, key, value) ==
    IF key = protoKey THEN h
    ELSE [h EXCEPT ![o] = [k \in DOMAIN @ \cup {key} |-> IF k = key THEN value ELSE @[k]]]

\* the inner loop over the segments of one file, from currFolder = cur on.
\* Object.prototype's own prototype cannot be set: that assignment throws.
RECURSIVE walk(_, _, _, _)
walk(st, cur, segs, path) ==
    IF st.threw THEN st
    ELSE IF Len(segs) = 1
    THEN [st EXCEPT !.heap = set(@, cur, segs[1], tfile(path))]
    ELSE LET segment == Head(segs)
             found == get(st.heap, cur, segment)
             fresh == found = null
             nextFolder == IF fresh THEN object(Len(st.heap) + 1) ELSE found
             h == IF fresh THEN Append(st.heap, <<>>) ELSE st.heap
         IN  IF nextFolder.kind = "file"
             THEN walk(st, cur, Tail(segs), path)
             ELSE IF segment = protoKey /\ cur = ObjectPrototype
             THEN [st EXCEPT !.threw = TRUE]
             ELSE walk([st EXCEPT !.heap = set(h, cur, segment, nextFolder)],
                       nextFolder.ref, Tail(segs), path)

\* for (const file of files) { ... }
RECURSIVE addFiles(_, _, _)
addFiles(st, root, paths) ==
    IF paths = <<>> \/ st.threw THEN st
    ELSE addFiles(walk(st, root, segments(Head(paths)), Head(paths)), root, Tail(paths))

\* the chooser code of addNew, from `const target = e.target` to
\* createMenu(folder, undefined): without a target nothing is shown; with
\* one the tree is built and its root menu shown, and addNew returns
showChooser(call, fs, h) ==
    IF ~call.target
    THEN [call |-> [call EXCEPT !.pc = "resolved", !.chooser = TRUE], heap |-> h]
    ELSE LET root == Len(h) + 1
             st == addFiles([heap |-> Append(h, <<>>), threw |-> FALSE], root,
                            sortedFiles(getMarkdownFiles(fs)))
         IN  IF st.threw
             THEN [call |-> [call EXCEPT !.pc = "rejected", !.chooser = TRUE],
                   heap |-> st.heap]
             ELSE [call |-> [call EXCEPT !.pc = "resolved", !.chooser = TRUE,
                                         !.menus = <<root>>],
                   heap |-> st.heap]

\* the user clicks the item `label` of the menu shown (one item per entry of
\* Object.entries(folder), the own keys): a document starts updateRow, not
\* awaited, and the menu closes; a folder shows its own menu
clickItem(c, label) ==
    LET call == calls[c]
        folder == call.menus[Len(call.menus)]
        folderItem == heap[folder][label]
    IN  /\ call.menus # <<>>
        /\ label \in DOMAIN heap[folder]
        /\ calls' = [calls EXCEPT ![c] =
              IF folderItem.kind = "file"
              THEN [call EXCEPT
                      !.menus = <<>>,
                      !.frames = Append(@, newFrame("none", folderItem.path, undefined,
                                                    blankLine(call.arg), FALSE))]
              ELSE [call EXCEPT !.menus = Append(@, folderItem.ref)]]
        /\ UNCHANGED <<files, folders, tasksByTaskId, metadataByTaskId, lastWrite, heap>>

\* the user clicks "<- back" (disabled in the root menu): the parent menu shows
clickBack(c) ==
    LET call == calls[c]
    IN  /\ Len(call.menus) > 1
        /\ calls' = [calls EXCEPT ![c].menus = SubSeq(@, 1, Len(@) - 1)]
        /\ UNCHANGED <<files, folders, tasksByTaskId, metadataByTaskId, lastWrite, heap>>

----------------------------------------------------------------------------
(* addNew: the steps of the default path *)

\* the call after the document has been ensured: with a TFile, updateRow is
\* called and not awaited, and addNew returns; without one addNew goes on to
\* the chooser
appendOrChoose(call, fs, h) ==
    IF isTFile(fs, call.fullPath)
    THEN [call |-> [call EXCEPT
                      !.pc = "resolved",
                      !.frames = Append(@, newFrame("none", call.fullPath, undefined,
                                                    blankLine(call.arg), FALSE))],
          heap |-> h]
    ELSE showChooser(call, fs, h)

\* addNew(column, e), run to its first await
addNew(c, column, target, defaultTaskPath, currentFilePath) ==
    LET fullPath == resolveFullPath(defaultTaskPath, currentFilePath)
        folderPath == folderPathOf(fullPath)
        call == [calls[c] EXCEPT !.op = "addNew", !.arg = column, !.target = target]
        shown == showChooser(call, files, heap)
    IN  /\ mayStart(c)
        /\ IF trim(defaultTaskPath) = <<>>
           THEN /\ calls' = [calls EXCEPT ![c] = shown.call]
                /\ heap' = shown.heap
           ELSE /\ calls' = [calls EXCEPT ![c] =
                      [call EXCEPT !.fullPath = fullPath, !.folderPath = folderPath,
                                   !.pc = IF folderPath # <<>>
                                          THEN "folderExists" ELSE "fileExists"]]
                /\ heap' = heap
        /\ UNCHANGED <<files, folders, tasksByTaskId, metadataByTaskId, lastWrite>>

\* if (!folderExists) await vault.createFolder(folderPath)
alwaysCreateFolder(folderExists) == "createFolder"
afterFolderCheck(folderExists) == IF folderExists THEN "fileExists" ELSE "createFolder"

\* const folderExists = await vault.adapter.exists(folderPath)
addNewFolderExists(c) ==
    LET call == calls[c]
        folderExists == vaultExists(call.folderPath)
    IN  /\ call.pc = "folderExists"
        /\ calls' = [calls EXCEPT ![c] =
              [call EXCEPT !.ops = Append(@, existsOp(call.folderPath, folderExists)),
                           !.pc = afterFolderCheck(folderExists)]]
        /\ UNCHANGED <<files, folders, tasksByTaskId, metadataByTaskId, lastWrite, heap>>

\* await vault.createFolder(folderPath)
addNewCreateFolder(c) ==
    LET call == calls[c]
    IN  /\ call.pc = "createFolder"
        /\ call.folderPath \notin folders
        /\ folders' = folders \cup {call.folderPath}
        /\ calls' = [calls EXCEPT ![c] =
              [call EXCEPT !.ops = Append(@, storeOp("createFolder", call.folderPath, TRUE)),
                           !.pc = "fileExists"]]
        /\ UNCHANGED <<files, tasksByTaskId, metadataByTaskId, lastWrite, heap>>

\* const exists = await vault.adapter.exists(fullPath); when it does, on to
\* getAbstractFileByPath
addNewFileExists(c) ==
    LET call == calls[c]
        exists == vaultExists(call.fullPath)
        logged == [call EXCEPT !.ops = Append(@, existsOp(call.fullPath, exists))]
        next == IF exists THEN appendOrChoose(logged, files, heap)
                ELSE [call |-> [logged EXCEPT !.pc = "create"], heap |-> heap]
    IN  /\ call.pc = "fileExists"
        /\ calls' = [calls EXCEPT ![c] = next.call]
        /\ heap' = next.heap
        /\ UNCHANGED <<files, folders, tasksByTaskId, metadataByTaskId, lastWrite>>

\* await vault.create(fullPath, ""), then on to getAbstractFileByPath
addNewCreate(c) ==
    LET call == calls[c]
        created == [p \in DOMAIN files \cup {call.fullPath} |->
                       IF p = call.fullPath THEN <<>> ELSE files[p]]
        next == appendOrChoose(
                   [call EXCEPT !.ops = Append(@, storeOp("create", call.fullPath, TRUE))],
                   created, heap)
    IN  /\ call.pc = "create"
        /\ ~vaultExists(call.fullPath)
        /\ files' = created
        /\ lastWrite' = [p \in DOMAIN created |->
                            IF p = call.fullPath THEN <<>> ELSE lastWrite[p]]
        /\ calls' = [calls EXCEPT ![c] = next.call]
        /\ heap' = next.heap
        /\ UNCHANGED <<folders, tasksByTaskId, metadataByTaskId>>

\* exists, createFolder or create rejects: addNew awaits each with no
\* try/catch, so the call rejects there
addNewStoreFails(c) ==
    LET call == calls[c]
        kind == CASE call.pc = "folderExists" -> "exists"
                  [] call.pc = "fileExists"   -> "exists"
                  [] OTHER                    -> call.pc
        path == IF call.pc \in {"folderExists", "createFolder"}
                THEN call.folderPath ELSE call.fullPath
    IN  /\ call.pc \in {"folderExists", "createFolder", "fileExists", "create"}
        /\ calls' = [calls EXCEPT ![c] =
              [call EXCEPT !.ops = Append(@, storeOp(kind, path, FALSE)),
                           !.pc = "rejected"]]
        /\ UNCHANGED <<files, folders, tasksByTaskId, metadataByTaskId, lastWrite, heap>>

----------------------------------------------------------------------------
(* SpecAdd: addNew calls over a vault that holds the board in folder p, and  *)
(* may already hold the folder p/t and the document p/t/i.md.               *)

boardDir == <<"p">>
boardPath == <<"p", "/", "b", ".", "m", "d">>
inboxDir == <<"p", "/", "t">>
inboxPath == <<"p", "/", "t", "/", "i", ".", "m", "d">>
inboxText == <<"a", NL, "b">>

\* the default task path settings tried, and the active file's parent paths
DefaultTaskPaths ==
    { <<>>, <<" ">>,
      <<"t", "/", "i">>,
      <<"t", "/", "/", "i", ".", "m", "d">>,
      <<"/", "i">>,
      <<"t", "/">> }
CurrentFilePaths == {<<>>, boardDir}

InitAdd ==
    /\ \E world \in {"bare", "folder", "inbox"} :
         /\ folders = {boardDir} \cup (IF world = "bare" THEN {} ELSE {inboxDir})
         /\ files = [p \in {boardPath} \cup (IF world = "inbox" THEN {inboxPath} ELSE {}) |->
                       IF p = inboxPath THEN inboxText ELSE noteLine]
         /\ lastWrite = [p \in DOMAIN files |-> <<>>]
    /\ tasksByTaskId = <<>>
    /\ metadataByTaskId = <<>>
    /\ calls = [c \in Calls |-> idleCall]
    /\ heap = << <<>> >>

NextAdd ==
    \E c \in Calls :
        \/ \E column \in NewColumns, path \in DefaultTaskPaths, dir \in CurrentFilePaths :
              addNew(c, column, TRUE, path, dir)
        \/ addNewFolderExists(c)
        \/ addNewCreateFolder(c)
        \/ addNewFileExists(c)
        \/ addNewCreate(c)
        \/ addNewStoreFails(c)
        \/ \E k \in 1..Len(calls[c].frames) : updateRowRead(c, k)
        \/ \E k \in 1..Len(calls[c].frames) : updateRowModify(c, k)
        \/ \E k \in 1..Len(calls[c].frames) : readFails(c, k)
        \/ \E k \in 1..Len(calls[c].frames) : modifyFails(c, k)

SpecAdd == InitAdd /\ [][NextAdd]_vars

----------------------------------------------------------------------------
(* SpecPath: addNew's path resolution over settings and active folders.  A   *)
(* call's record holds, from the start, the default task path that           *)
(* get(settingsStore) and the parent path that getActiveFile() will give it. *)

PathSettings ==
    { <<>>, <<" ">>,
      <<"i">>, <<"i", ".", "m", "d">>, <<"i", ".", "x">>,
      <<"t", "/", "i">>, <<"t", "/", "/", "i", ".", "m", "d">>,
      <<"t", "/", "/", "i", ".", "x">>, <<"t", "/">>, <<"t", "\\">>,
      <<"/", "i">>, <<"/", "/", "i">>, <<"\\", "i">>, <<"/", "t", "/", "i", ".", "x">>,
      <<".", "m", "d">>, <<" ", "i">> }
\* parent.path: empty (no active file), the vault's root, a folder, a nested one
PathFolders == {<<>>, <<"/">>, boardDir, inboxDir}

InitPath ==
    /\ folders = {boardDir}
    /\ files = [p \in {boardPath} |-> noteLine]
    /\ lastWrite = [p \in DOMAIN files |-> <<>>]
    /\ tasksByTaskId = <<>>
    /\ metadataByTaskId = <<>>
    /\ heap = << <<>> >>
    /\ \E path \in PathSettings, dir \in PathFolders :
         calls = [c \in Calls |->
                    [idleCall EXCEPT !.defaultTaskPath = IF c = 1 THEN path ELSE <<"i">>,
                                     !.currentFilePath = IF c = 1 THEN dir ELSE boardDir]]

NextPath ==
    \E c \in Calls, column \in Columns :
        addNew(c, column, TRUE, calls[c].defaultTaskPath, calls[c].currentFilePath)

SpecPath == InitPath /\ [][NextPath]_vars

----------------------------------------------------------------------------
(* SpecChoose: addNew calls that go to the chooser or to the existing       *)
(* document p/t/i.md, over a vault with documents at three depths and, in    *)
(* one world, a document in a folder named __proto__; the store may reject   *)
(* the append's read and modify.                                             *)

protoDir == boardDir \o <<"/">> \o protoKey
protoPath == protoDir \o <<"/", "x", ".", "m", "d">>

\* no setting (absent and empty are the same to `defaultTaskPath?.trim()`),
\* a blank one, and the relative path of the inbox
ChoosePaths == {<<>>, <<" ">>, <<"t", "/", "i">>}

InitChoose ==
    /\ \E world \in {"plain", "proto"} :
         /\ folders = {boardDir, inboxDir} \cup (IF world = "proto" THEN {protoDir} ELSE {})
         /\ files = [p \in {boardDoc, boardPath, inboxPath}
                             \cup (IF world = "proto" THEN {protoPath} ELSE {}) |-> noteLine]
         /\ lastWrite = [p \in DOMAIN files |-> <<>>]
    /\ tasksByTaskId = <<>>
    /\ metadataByTaskId = <<>>
    /\ calls = [c \in Calls |-> idleCall]
    /\ heap = << <<>> >>

NextChoose ==
    \E c \in Calls :
        \/ \E column \in NewColumns, target \in BOOLEAN, path \in ChoosePaths :
              addNew(c, column, target, path, boardDir)
        \/ \E label \in UNION {DOMAIN heap[o] : o \in 1..Len(heap)} : clickItem(c, label)
        \/ clickBack(c)
        \/ addNewFolderExists(c)
        \/ addNewFileExists(c)
        \/ \E k \in 1..Len(calls[c].frames) : updateRowRead(c, k)
        \/ \E k \in 1..Len(calls[c].frames) : updateRowModify(c, k)
        \/ \E k \in 1..Len(calls[c].frames) : readFails(c, k)
        \/ \E k \in 1..Len(calls[c].frames) : modifyFails(c, k)

SpecChoose == InitChoose /\ [][NextChoose]_vars

----------------------------------------------------------------------------
(* SpecRow: updateRow(D, r, text) called on one document, then called again  *)
(* with the same arguments once the first call has returned.                 *)

RowLines == {<<>>, <<"a">>, <<"b", "c">>}
RowTexts == {<<>>, <<"a">>, <<"y">>}
RowDocs == {join(rows) : rows \in UNION {[1..n -> RowLines] : n \in 1..MaxLines}}
RowIndices == {undefined} \cup (0..(MaxLines + 1))

InitRow ==
    /\ files \in [{boardDoc} -> RowDocs]
    /\ folders = {}
    /\ tasksByTaskId = <<>>
    /\ metadataByTaskId = <<>>
    /\ lastWrite = [p \in {boardDoc} |-> <<>>]
    /\ heap = << <<>> >>
    /\ \E r \in RowIndices, text \in RowTexts :
         calls = [c \in Calls |->
                    IF c = 1
                    THEN [idleCall EXCEPT
                            !.op = "updateRow", !.pc = "running",
                            !.frames = <<newFrame("none", boardDoc, r, text, TRUE)>>]
                    ELSE idleCall]

\* the same updateRow(vault, fileHandle, row, newText) once more
updateRowAgain(c) ==
    LET call == calls[c]
    IN  /\ call.op = "updateRow"
        /\ Len(call.frames) = 1
        /\ call.frames[1].pc \in {"done", "returned"}
        /\ calls' = [calls EXCEPT ![c].frames =
              Append(@, newFrame("none", @[1].fileHandle, @[1].row, @[1].newText, TRUE))]
        /\ UNCHANGED <<files, folders, tasksByTaskId, metadataByTaskId, lastWrite, heap>>

NextRow ==
    \E c \in Calls :
        \/ \E k \in 1..Len(calls[c].frames) : updateRowRead(c, k)
        \/ \E k \in 1..Len(calls[c].frames) : updateRowModify(c, k)
        \/ updateRowAgain(c)

SpecRow == InitRow /\ [][NextRow]_vars

----------------------------------------------------------------------------
(* Claims about updateRow *)

\* every frame of every call, as <<call, index>>
Frames == UNION {{<<c, k>> : k \in 1..Len(calls[c].frames)} : c \in Calls}
frameOf(ck) == calls[ck[1]].frames[ck[2]]
\* the frame has read the document: its `file` is what it read
hasRead(f) == f.pc \in {"modify", "done", "returned"}
\* D with the line at 0-based position r dropped
dropLine(D, r) == SubSeq(D, 1, r) \o SubSeq(D, r + 2, Len(D))

\* C1: updateRow(D, r, text) with r < length(D) and text # "" writes back a
\* document with as many lines as D, text at position r, and D's line at every
\* other position.
C1_ReplaceInPlace ==
    \A ck \in Frames :
        LET f == frameOf(ck)
            D == split(f.file)
            W == split(f.newFile)
        IN  (hasRead(f) /\ f.row # undefined /\ f.row < Len(D) /\ f.newText # <<>>)
            => /\ f.pc # "returned"
               /\ Len(W) = Len(D)
               /\ W[f.row + 1] = f.newText
               /\ \A i \in 1..Len(D) : i # f.row + 1 => W[i] = D[i]
               /\ (f.pc = "done" /\ lastWrite[f.fileHandle] = ck)
                     => files[f.fileHandle] = f.newFile

C1_Witness ==
    \E ck \in Frames :
        LET f == frameOf(ck)
            D == split(f.file)
        IN  /\ f.pc = "done" /\ lastWrite[f.fileHandle] = ck
            /\ f.row # undefined /\ f.row < Len(D) /\ f.newText # <<>>
            /\ Len(D) = MaxLines /\ f.row = 1 /\ D[f.row + 1] # f.newText

\* C2 as stated: updateRow(D, r, "") with r < length(D) writes a document of
\* exactly length(D) - 1 lines, D with position r dropped.
C2_Original ==
    \A ck \in Frames :
        LET f == frameOf(ck)
            D == split(f.file)
            W == split(f.newFile)
        IN  (f.pc = "done" /\ f.row # undefined /\ f.row < Len(D) /\ f.newText = <<>>)
            => /\ Len(W) = Len(D) - 1
               /\ W = dropLine(D, f.row)

\* C2 (amended): updateRow(D, r, "") with r < length(D) removes line r: the
\* text written is the join of D with position r dropped; when D has two or
\* more lines that is a document of length(D) - 1 lines in the same order, and
\* when D has one line it is the empty text, which reads back as one empty line.
C2_DeleteRemovesLine ==
    \A ck \in Frames :
        LET f == frameOf(ck)
            D == split(f.file)
            W == split(f.newFile)
        IN  (hasRead(f) /\ f.row # undefined /\ f.row < Len(D) /\ f.newText = <<>>)
            => /\ f.pc # "returned"
               /\ f.newFile = join(dropLine(D, f.row))
               /\ Len(D) >= 2 => (Len(W) = Len(D) - 1 /\ W = dropLine(D, f.row))
               /\ Len(D) = 1 => (f.newFile = <<>> /\ W = << <<>> >>)
               /\ (f.pc = "done" /\ lastWrite[f.fileHandle] = ck)
                     => files[f.fileHandle] = f.newFile

C2_Witness ==
    \E ck \in Frames :
        LET f == frameOf(ck)
            D == split(f.file)
        IN  /\ f.pc = "done" /\ lastWrite[f.fileHandle] = ck
            /\ f.row = 1 /\ f.newText = <<>>
            /\ Len(D) = MaxLines /\ D[1] # D[2] /\ D[2] # D[3]

\* C3: updateRow(D, undefined, text) with text # "" writes back D with text as
\* a new final line: every line of D keeps its position and the line count
\* grows by exactly 1.
C3_AppendAddsFinalLine ==
    \A ck \in Frames :
        LET f == frameOf(ck)
            D == split(f.file)
            W == split(f.newFile)
        IN  (hasRead(f) /\ f.row = undefined /\ f.newText # <<>>)
            => /\ f.pc # "returned"
               /\ Len(W) = Len(D) + 1
               /\ W = Append(D, f.newText)
               /\ (f.pc = "done" /\ lastWrite[f.fileHandle] = ck)
                     => files[f.fileHandle] = f.newFile

C3_Witness ==
    \E ck \in Frames :
        LET f == frameOf(ck)
            D == split(f.file)
        IN  /\ f.pc = "done" /\ lastWrite[f.fileHandle] = ck
            /\ f.row = undefined /\ f.newText # <<>>
            /\ Len(D) = MaxLines /\ D[Len(D)] # f.newText

\* C4 as stated: updateRow(D, r, anything) with an explicit r >= length(D),
\* r = length(D) included, returns at the stale-position guard: no write is
\* issued and the document stays as it was read.
C4_StaleRowLeavesDocument ==
    \A ck \in Frames :
        LET f == frameOf(ck)
            D == split(f.file)
        IN  (hasRead(f) /\ f.row # undefined /\ f.row >= Len(D))
            => f.pc = "returned"

\* C5: for an explicit row (below, at or above length(D)) and a non-empty text,
\* the document after the second updateRow(D, r, text) is the document after
\* the first.
C5_NonDeleteIdempotent ==
    \A c \in Calls :
        LET fs == calls[c].frames
            afterFirst == IF fs[1].pc = "done" THEN fs[1].newFile ELSE fs[1].file
        IN  (calls[c].op = "updateRow" /\ Len(fs) = 2
               /\ fs[2].pc \in {"done", "returned"}
               /\ fs[1].row # undefined /\ fs[1].newText # <<>>)
            => files[fs[1].fileHandle] = afterFirst

C5_Witness ==
    \E c \in Calls :
        LET fs == calls[c].frames
        IN  /\ calls[c].op = "updateRow" /\ Len(fs) = 2
            /\ fs[1].pc = "done" /\ fs[2].pc = "done"
            /\ fs[1].newText # <<>>
            /\ fs[1].row = Len(split(fs[1].file))
            /\ fs[1].newFile # fs[1].file

----------------------------------------------------------------------------
(* Claims about the dispatcher's line edits *)

lineEdits == {"changeColumn", "markDone", "updateContent", "deleteTask", "archiveTasks"}
\* the id is missing from the task map or from the metadata map
lacksEntry(id) == id \notin DOMAIN tasksByTaskId \/ id \notin DOMAIN metadataByTaskId
elems(q) == {q[i] : i \in 1..Len(q)}
count(q, kind) == Cardinality({i \in 1..Len(q) : q[i].kind = kind})

\* C6: a line-edit operation (each id of archiveTasks included) whose id is
\* missing from the task map or the metadata map ends without error and without
\* effect: the updater is applied to no task and no updateRow is started for
\* the id, so the store is neither read nor written for it.
C6_MissingIdIsNoOp ==
    /\ \A c \in Calls :
        LET call == calls[c]
        IN  call.op \in lineEdits =>
            /\ \A id \in elems(call.handled) :
                  lacksEntry(id) =>
                     /\ id \notin elems(call.applied)
                     /\ \A k \in 1..Len(call.frames) : call.frames[k].id # id
            /\ Len(call.frames) = Cardinality({i \in 1..Len(call.handled) :
                                                   ~lacksEntry(call.handled[i])})
            /\ Len(call.ops) <= 2 * Len(call.frames)
            /\ call.pc = "rejected" =>
                  \E k \in 1..Len(call.frames) : call.frames[k].pc = "failed"
            /\ (call.op # "archiveTasks" /\ \A id \in elems(call.handled) : lacksEntry(id))
                  => call.frames = <<>> /\ call.ops = <<>>
    /\ (\A c \in Calls : \A id \in elems(calls[c].handled) : lacksEntry(id))
          => tasksByTaskId = scannedTasks

C6_Witness ==
    \E c, d \in Calls :
        /\ calls[c].op = "deleteTask" /\ calls[c].handled = <<"t3">>
        /\ calls[c].pc = "resolved" /\ calls[c].ops = <<>>
        /\ calls[d].op = "archiveTasks" /\ calls[d].handled = <<"t1", "t4", "t2">>
        /\ calls[d].pc = "resolved" /\ Len(calls[d].frames) = 2

\* the line an archived task serialises to
archivedLine(id) == serialise([scannedTasks[id] EXCEPT !.column = archived])

\* C7: archiveTasks handles its ids one after another: a round (a frame of
\* updateRow) is started only when every earlier round of the call has ended
\* with its write done or skipped, so no two rounds of one call overlap; and
\* when the call has resolved and no other call has touched the store, every
\* targeted line holds its task's archived serialisation.
C7_ArchiveIsSequential ==
    \A c \in Calls :
        LET call == calls[c]
        IN  call.op = "archiveTasks" =>
            /\ \A k \in 1..(Len(call.frames) - 1) :
                  call.frames[k].pc \in {"done", "returned"}
            /\ (call.pc = "resolved"
                  /\ \A d \in Calls \ {c} : calls[d].frames = <<>>)
               => \A k \in 1..Len(call.frames) :
                     LET f == call.frames[k]
                     IN  /\ f.pc = "done"
                         /\ ~f.dirty
                         /\ f.newText = archivedLine(f.id)
                         /\ split(files[f.fileHandle])[f.row + 1] = archivedLine(f.id)

C7_Witness ==
    \E c \in Calls :
        /\ calls[c].op = "archiveTasks" /\ calls[c].pc = "resolved"
        /\ calls[c].handled = <<"t1", "t2">>
        /\ \A d \in Calls \ {c} : calls[d].pc = "idle"
        /\ split(files[boardDoc])[1] = archivedLine("t1")
        /\ split(files[boardDoc])[2] = archivedLine("t2")
        /\ Len(split(files[boardDoc])) = 3

\* C8: nothing keeps two calls apart.  When two calls edit different rows of
\* one document, both read the same text, and the second write lands after the
\* first (it was computed before the first write), the document is the second
\* call's newFile: the text both read with only the second call's row patched,
\* the first call's row as it was before either write.
C8_LostUpdate ==
    \A a, b \in Frames :
        LET f1 == frameOf(a)
            f2 == frameOf(b)
            D0 == split(f2.file)
        IN  (/\ a[1] # b[1]
             /\ f1.pc = "done" /\ f2.pc = "done"
             /\ f1.fileHandle = f2.fileHandle
             /\ f1.file = f2.file
             /\ f1.row # f2.row /\ f1.row < Len(D0) /\ f2.row < Len(D0)
             /\ ~f1.dirty /\ f2.dirty
             /\ lastWrite[f2.fileHandle] = b)
            => /\ files[f2.fileHandle] = f2.newFile
               /\ f2.newFile = join(patch(D0, f2.row, f2.newText))
               /\ (f1.newText # <<>> /\ f2.newText # <<>>)
                     => split(files[f2.fileHandle])[f1.row + 1] = D0[f1.row + 1]

C8_Witness ==
    \E a, b \in Frames :
        LET f1 == frameOf(a)
            f2 == frameOf(b)
        IN  /\ a[1] # b[1]
            /\ calls[a[1]].op = "changeColumn" /\ calls[b[1]].op = "markDone"
            /\ f1.id = "t1" /\ f2.id = "t2"
            /\ f1.pc = "done" /\ f2.pc = "done"
            /\ f1.file = f2.file
            /\ ~f1.dirty /\ f2.dirty
            /\ lastWrite[boardDoc] = b
            /\ split(files[boardDoc])[1] = serialise(scannedTasks["t1"])
            /\ split(files[boardDoc])[1] # f1.newText
            /\ split(files[boardDoc])[2] = f2.newText

\* C9: a store read or modify that fails during a line edit rejects the call;
\* the failed operation is the call's last store operation (no retry, no write
\* after a failed read), and an archiveTasks call handles no further id.
C9_FailurePropagates ==
    \A c \in Calls :
        LET call == calls[c]
            n == Len(call.frames)
        IN  call.op \in lineEdits =>
            /\ \A k \in 1..n :
                  call.frames[k].pc = "failed" =>
                     /\ call.pc = "rejected"
                     /\ k = n
                     /\ call.ops # <<>> /\ ~call.ops[Len(call.ops)].ok
                     /\ call.handled[Len(call.handled)] = call.frames[k].id
                     /\ Len(call.applied) = n
            /\ \A i \in 1..(Len(call.ops) - 1) : call.ops[i].ok
            /\ count(call.ops, "read") <= n
            /\ count(call.ops, "modify") <= count(call.ops, "read")
            /\ \A i \in 1..Len(call.ops) :
                  (call.ops[i].kind = "read" /\ ~call.ops[i].ok) => i = Len(call.ops)

C9_Witness ==
    \E c \in Calls :
        /\ calls[c].op = "archiveTasks" /\ calls[c].pc = "rejected"
        /\ calls[c].handled = <<"t1">> /\ calls[c].ids = <<"t4", "t2">>
        /\ calls[c].ops = <<storeOp("read", boardDoc, TRUE), storeOp("modify", boardDoc, FALSE)>>
        /\ \E d \in Calls : calls[d].op = "markDone" /\ calls[d].pc = "rejected"
                            /\ calls[d].ops = <<storeOp("read", boardDoc, FALSE)>>

----------------------------------------------------------------------------
(* Claims about addNew *)

\* the place of a store operation of an addNew call in the order
\* folder check, folder creation, document check, document creation, read, modify
stepRank(call, o) ==
    CASE o.kind = "exists" /\ o.path = call.folderPath -> 1
      [] o.kind = "createFolder"                       -> 2
      [] o.kind = "exists"                             -> 3
      [] o.kind = "create"                             -> 4
      [] o.kind = "read"                               -> 5
      [] OTHER                                         -> 6

\* what C10 and its amendment share: the steps come in their order, each at
\* most once; a creation directly follows the check that found nothing there,
\* so what exists is not created again; the append targets the resolved path
\* with row undefined, and writes the text it read followed by the new line
addNewSteps(call) ==
    /\ \A i, j \in 1..Len(call.ops) :
          i < j => stepRank(call, call.ops[i]) < stepRank(call, call.ops[j])
    /\ \A i \in 1..Len(call.ops) :
          call.ops[i].kind \in {"createFolder", "create"} =>
             /\ i > 1
             /\ call.ops[i - 1] =
                   existsOp(IF call.ops[i].kind = "create"
                            THEN call.fullPath ELSE call.folderPath, FALSE)
             /\ call.ops[i].path = call.ops[i - 1].path
    /\ Len(call.frames) <= 1
    /\ \A k \in 1..Len(call.frames) :
          LET f == call.frames[k]
          IN  /\ f.fileHandle = call.fullPath /\ f.row = undefined
              /\ f.newText = blankLine(call.arg)
              /\ ~f.awaited
              /\ f.fileHandle \in DOMAIN files
              /\ \E i \in 1..Len(call.ops) :
                    /\ stepRank(call, call.ops[i]) \in {3, 4}
                    /\ call.ops[i].ok
                    /\ call.ops[i].path = call.fullPath
                    /\ call.ops[i].kind = "exists" => call.ops[i].found
              /\ hasRead(f) =>
                    /\ f.pc # "returned"
                    /\ split(f.newFile) = Append(split(f.file), blankLine(call.arg))

\* C10 as stated: the first store step of every addNew with a non-blank
\* default path is the existence check of the containing folder, and the call
\* ends its steps with the append.
C10_Original ==
    \A c \in Calls :
        LET call == calls[c]
        IN  (call.op = "addNew" /\ call.fullPath # <<>>) =>
            /\ addNewSteps(call)
            /\ call.ops # <<>> =>
                  (call.ops[1].kind = "exists" /\ call.ops[1].path = call.folderPath
                     /\ call.folderPath # <<>>)
            /\ call.pc = "resolved" => Len(call.frames) = 1

\* C10 (amended): the steps come in the order folder check, folder creation
\* only if the check found no folder, document check, creation of an empty
\* document only if the check found none, append.  The two folder steps are
\* there exactly when the resolved path has a folder part, and the append is
\* started exactly when the resolved path then names a document; otherwise
\* the call goes on to the chooser without appending.
C10_AddNewOrder ==
    \A c \in Calls :
        LET call == calls[c]
        IN  (call.op = "addNew" /\ call.fullPath # <<>>) =>
            /\ addNewSteps(call)
            /\ call.folderPath = folderPathOf(call.fullPath)
            /\ call.ops # <<>> =>
                  /\ call.ops[1].kind = "exists"
                  /\ call.ops[1].path =
                        IF call.folderPath # <<>> THEN call.folderPath ELSE call.fullPath
            /\ call.folderPath = <<>> =>
                  \A i \in 1..Len(call.ops) : stepRank(call, call.ops[i]) >= 3
            /\ call.pc = "resolved" =>
                  /\ Len(call.frames) = 1 <=> ~call.chooser
                  /\ call.chooser <=> call.fullPath \notin DOMAIN files

\* the folder and the document are missing: one call creates both and appends
\* to the empty document; a later call finds both, creates neither and appends
\* after the lines that are there
C10_Witness ==
    \E c, d \in Calls :
        LET call == calls[c]
        IN  /\ call.op = "addNew" /\ call.fullPath = inboxPath
            /\ Len(call.ops) = 6
            /\ call.ops[1] = existsOp(inboxDir, FALSE)
            /\ call.ops[2] = storeOp("createFolder", inboxDir, TRUE)
            /\ call.ops[3] = existsOp(inboxPath, FALSE)
            /\ call.ops[4] = storeOp("create", inboxPath, TRUE)
            /\ call.ops[5] = storeOp("read", inboxPath, TRUE)
            /\ call.ops[6] = storeOp("modify", inboxPath, TRUE)
            /\ calls[d].op = "addNew"
            /\ calls[d].ops = <<existsOp(inboxDir, TRUE), existsOp(inboxPath, TRUE),
                                storeOp("read", inboxPath, TRUE),
                                storeOp("modify", inboxPath, TRUE)>>
            /\ calls[d].frames[1].file = <<NL>> \o blankLine(doing)
            /\ files[inboxPath] = <<NL>> \o blankLine(doing) \o <<NL>> \o blankLine(doing)

----------------------------------------------------------------------------
(* Claims about viewFile *)

\* what a viewFile call has done so far is presentation only
viewOnly(call) ==
    /\ call.ops = <<>> /\ call.frames = <<>> /\ call.applied = <<>>
    /\ (call.handled[1] \notin DOMAIN metadataByTaskId)
          => (call.view = <<>> /\ call.pc = "resolved")

\* C11: viewFile(id) issues no store read, modify, create or createFolder, and
\* no step of a viewFile call changes a document, a folder, the task map or the
\* metadata map; when the metadata for id is missing the call returns without
\* any presentation-layer action (no open, no cursor), whether or not a task
\* with that id exists.
C11_ViewFileTouchesNothing ==
    /\ [](\A c \in Calls : calls[c].op = "viewFile" => viewOnly(calls[c]))
    /\ [][\A c \in Calls :
            (calls[c]' # calls[c] /\ calls[c]'.op = "viewFile")
            => UNCHANGED <<files, folders, tasksByTaskId, metadataByTaskId>>]_vars

\* t3 has a task and no metadata: nothing is opened; t4 has metadata and no
\* task: its document is opened and the cursor set
C11_Witness ==
    \E c, d \in Calls :
        /\ calls[c].op = "viewFile" /\ calls[c].handled = <<"t3">>
        /\ calls[c].pc = "resolved" /\ calls[c].view = <<>>
        /\ calls[d].op = "viewFile" /\ calls[d].handled = <<"t4">>
        /\ calls[d].pc = "resolved"
        /\ calls[d].view = <<viewOp("openFile", otherDoc, undefined),
                             viewOp("setCursor", otherDoc, 0)>>

----------------------------------------------------------------------------
(* Claims about the chooser *)

\* what the user reaches from the menu of object o by clicking, segment after
\* segment, the items named by segs
RECURSIVE navigate(_, _, _)
navigate(h, o, segs) ==
    IF Head(segs) \notin DOMAIN h[o] THEN null
    ELSE LET item == h[o][Head(segs)]
         IN  IF Len(segs) = 1 THEN item
             ELSE IF item.kind = "object" THEN navigate(h, item.ref, Tail(segs))
             ELSE null

\* an addNew call without a default path: no store operation before a
\* selection, one updateRow at most, its read and write on the selected
\* document only, and the text written is the text read followed by the line
chooserAppends(call) ==
    /\ Len(call.frames) <= 1
    /\ call.frames = <<>> => call.ops = <<>>
    /\ \A k \in 1..Len(call.frames) :
          LET f == call.frames[k]
          IN  /\ f.row = undefined /\ f.newText = blankLine(call.arg)
              /\ f.fileHandle \in getMarkdownFiles(files)
              /\ call.menus = <<>>
              /\ \A i \in 1..Len(call.ops) :
                    call.ops[i].kind \in {"read", "modify"} /\ call.ops[i].path = f.fileHandle
              /\ hasRead(f) =>
                    /\ f.pc # "returned"
                    /\ split(f.newFile) = Append(split(f.file), blankLine(call.arg))

\* C12 as stated: an addNew call without a default path (none, or a blank one)
\* writes nothing until a document is selected; while its chooser is open,
\* every document of the vault is reached from the root menu by its path
\* segments; and a selection appends exactly the line `- [ ]  #<column>` as the
\* selected document's new final line and touches no other document.
C12_ChooserReachesEveryDocument ==
    \A c \in Calls :
        LET call == calls[c]
        IN  (call.op = "addNew" /\ call.fullPath = <<>>) =>
            /\ chooserAppends(call)
            /\ call.menus # <<>> =>
                  \A path \in getMarkdownFiles(files) :
                     navigate(heap, call.menus[1], segments(path)) = tfile(path)

----------------------------------------------------------------------------
(* Claims about updateRow's reads and writes *)

\* the document as the frame left it
leftBy(f) == IF f.pc = "done" THEN f.newFile ELSE f.file

\* C13: every call of updateRow reads the document exactly once and writes it
\* at most once, the write after the read; the text written is the whole
\* document computed from what that read returned; and nothing is kept
\* between calls: a second call reads the document as the first left it.
C13_OneReadAtMostOneWrite ==
    \A c \in Calls :
        LET call == calls[c]
            fs == call.frames
        IN  call.op = "updateRow" =>
            /\ count(call.ops, "read") = Cardinality({k \in 1..Len(fs) : fs[k].pc # "read"})
            /\ count(call.ops, "modify") = Cardinality({k \in 1..Len(fs) : fs[k].pc = "done"})
            /\ \A i \in 1..Len(call.ops) :
                  call.ops[i].kind = "modify" => (i > 1 /\ call.ops[i - 1].kind = "read")
            /\ \A k \in 1..Len(fs) :
                  /\ fs[k].pc \in {"modify", "done"} =>
                        fs[k].newFile = join(patch(split(fs[k].file),
                                                   targetRow(split(fs[k].file), fs[k].row),
                                                   fs[k].newText))
                  /\ (fs[k].pc = "done" /\ lastWrite[fs[k].fileHandle] = <<c, k>>)
                        => files[fs[k].fileHandle] = fs[k].newFile
                  /\ fs[k].pc = "returned" => files[fs[k].fileHandle] = fs[k].file
            /\ (Len(fs) = 2 /\ hasRead(fs[2])) => fs[2].file = leftBy(fs[1])

\* the second call has read a document the first call changed, and changed it again
C13_Witness ==
    \E c \in Calls :
        LET fs == calls[c].frames
        IN  /\ calls[c].op = "updateRow" /\ Len(fs) = 2
            /\ fs[1].pc = "done" /\ fs[2].pc = "done"
            /\ fs[2].file = fs[1].newFile /\ fs[1].newFile # fs[1].file
            /\ fs[2].newFile # fs[2].file
            /\ Len(calls[c].ops) = 4

----------------------------------------------------------------------------
(* Claims about the race window *)

\* the lines of `after` are the lines of `before` but for the line at row:
\* replaced or added by a text, dropped by the empty text
keepsOtherLines(before, after, row, newText) ==
    LET target == IF row = undefined THEN Len(before) ELSE row
        shift == IF newText = <<>> THEN 1 ELSE 0
    IN  /\ Len(after) >= Len(before) - shift
        /\ Len(after) <= Len(before) + 1
        /\ \A i \in 1..Len(before) :
              /\ i < target + 1 => after[i] = before[i]
              /\ i > target + 1 => after[i - shift] = before[i]

\* C14: when no other write to the document (by another call or from outside)
\* fell between an updateRow's read and its write, the write leaves every line
\* it does not target as it was in the document just before the write.
C14_WriteKeepsOtherLines ==
    [][\A c \in Calls : \A k \in 1..Len(calls[c].frames) :
          LET f == calls[c].frames[k]
          IN  (f.pc = "modify" /\ ~f.dirty /\ calls[c]'.frames[k].pc = "done")
              => keepsOtherLines(split(files[f.fileHandle]), split(files[f.fileHandle]'),
                                 f.row, f.newText)]_vars

\* three edits whose rounds did not overlap, all kept: t1's column by one call,
\* a line from outside, then t2's done mark by another call
C14_Witness ==
    \E a, b \in Frames :
        LET f1 == frameOf(a)
            f2 == frameOf(b)
            lines == split(files[boardDoc])
        IN  /\ a[1] # b[1]
            /\ f1.id = "t1" /\ f2.id = "t2" /\ f1.pc = "done" /\ f2.pc = "done"
            /\ ~f1.dirty /\ ~f2.dirty
            /\ lastWrite[boardDoc] = b
            /\ f2.file = join(Append(split(f1.newFile), editLine))
            /\ lines = <<f1.newText, f2.newText, noteLine, editLine>>
            /\ f1.newText # serialise(scannedTasks["t1"])
            /\ f2.newText # serialise(scannedTasks["t2"])

----------------------------------------------------------------------------
(* Claims about addNew's path resolution *)

nonEmpty(segs) == SelectSeq(segs, LAMBDA x : x # <<>>)
startsWithSlash(s) == s # <<>> /\ s[1] = "/"
\* base is `raw` with each run of separators made one separator
collapsed(base, raw) ==
    /\ \A i \in 1..(Len(base) - 1) : ~(base[i] = "/" /\ base[i + 1] = "/")
    /\ nonEmpty(segments(base)) = nonEmpty(segments(raw))
    /\ startsWithSlash(base) <=> startsWithSlash(raw)
    /\ endsWith(base, <<"/">>) <=> endsWith(raw, <<"/">>)
\* base is what the setting resolves to, before any extension is appended
resolvesTo(call, base) ==
    IF call.defaultTaskPath[1] \in {"/", "\\"}
    THEN base = call.defaultTaskPath
    ELSE collapsed(base, call.currentFilePath \o <<"/">> \o call.defaultTaskPath)
denotesDirectory(base) == endsWith(base, <<"/">>) \/ endsWith(base, <<"\\">>)
\* the last segment has a dot: the path carries an extension
hasExtension(base) ==
    LET name == segments(base)[Len(segments(base))]
    IN  \E i \in 1..Len(name) : name[i] = "."
\* the resolved path: fullPath, or fullPath without a final .md
bases(call) ==
    {call.fullPath} \cup
    (IF endsWith(call.fullPath, dotMd)
     THEN {SubSeq(call.fullPath, 1, Len(call.fullPath) - 3)} ELSE {})
resolving(call) == call.op = "addNew" /\ trim(call.defaultTaskPath) # <<>>

\* C15 as stated: a relative path is resolved against the active folder with
\* separator runs collapsed, a path starting with a separator is absolute, and
\* .md is appended exactly when the resolved path has no extension and is no
\* directory (a path with any extension is left as it is).
C15_Original ==
    \A c \in Calls :
        resolving(calls[c]) =>
           \E base \in bases(calls[c]) :
              /\ resolvesTo(calls[c], base)
              /\ calls[c].fullPath = base \o dotMd
                    <=> (~hasExtension(base) /\ ~denotesDirectory(base))

\* C15 (amended): a relative path is resolved against the active folder with
\* separator runs collapsed, a path starting with / or \ is taken as it is, and
\* .md is appended exactly when the resolved path ends neither in a separator
\* nor in .md: a path with another extension gets .md appended too.
C15_PathResolution ==
    \A c \in Calls :
        resolving(calls[c]) =>
           \E base \in bases(calls[c]) :
              /\ resolvesTo(calls[c], base)
              /\ calls[c].fullPath = base \o dotMd
                    <=> (~endsWith(base, dotMd) /\ ~denotesDirectory(base))
              /\ calls[c].fullPath # base \o dotMd => calls[c].fullPath = base

\* t//i.x under folder p resolves to p/t/i.x.md
C15_Witness ==
    /\ calls[1].op = "addNew"
    /\ calls[1].defaultTaskPath = <<"t", "/", "/", "i", ".", "x">>
    /\ calls[1].currentFilePath = boardDir
    /\ calls[1].fullPath = <<"p", "/", "t", "/", "i", ".", "x", ".", "m", "d">>
    /\ calls[1].folderPath = inboxDir

----------------------------------------------------------------------------
(* Claims about addNew's append *)

\* C16: addNew starts updateRow and does not await it, on the default path and
\* from the chooser alike: the call has resolved whatever the append has done
\* so far (nothing read yet included), a failed read or modify of the append
\* leaves the call resolved, and when two addNew calls have read the same text
\* of one document, the document after both writes has one new line, not two.
C16_AppendNotAwaited ==
    /\ \A c \in Calls :
          calls[c].op = "addNew" =>
             /\ \A k \in 1..Len(calls[c].frames) :
                   ~calls[c].frames[k].awaited /\ calls[c].pc = "resolved"
             /\ calls[c].chooser => calls[c].pc = "resolved"
    /\ \A a, b \in Frames :
          LET f1 == frameOf(a)
              f2 == frameOf(b)
          IN  (/\ a[1] # b[1]
               /\ calls[a[1]].op = "addNew" /\ calls[b[1]].op = "addNew"
               /\ f1.fileHandle = f2.fileHandle /\ f1.file = f2.file
               /\ f1.pc = "done" /\ f2.pc = "done"
               /\ lastWrite[f2.fileHandle] = b)
              => /\ f2.dirty
                 /\ split(files[f2.fileHandle]) = Append(split(f2.file), f2.newText)

\* one call on the default path and one from the chooser, both resolved, both
\* appends written to p/t/i.md: the document has gained one line
C16_Witness ==
    \E a, b \in Frames :
        LET f1 == frameOf(a)
            f2 == frameOf(b)
        IN  /\ calls[a[1]].op = "addNew" /\ calls[a[1]].fullPath = inboxPath
            /\ calls[b[1]].op = "addNew" /\ calls[b[1]].fullPath = <<>>
            /\ calls[b[1]].chooser
            /\ f1.fileHandle = inboxPath /\ f2.fileHandle = inboxPath
            /\ f1.pc = "done" /\ f2.pc = "done" /\ f1.file = f2.file
            /\ split(files[inboxPath]) = <<noteLine, blankLine(doing)>>

----------------------------------------------------------------------------
(* Claims about the recorded row indices *)

\* the line is a serialisation of the task id in some state of its column,
\* done flag and content
ownLine(id, line) ==
    \E column \in Columns, done \in BOOLEAN,
       content \in {scannedTasks[id].content} \cup NewContents :
          line = serialise([column |-> column, done |-> done,
                            deleted |-> FALSE, content |-> content])

\* C17: the dispatcher never updates the metadata map.  Once a deleteTask has
\* removed row r of a document, a later edit of a task recorded at a row above
\* r finds its own line one place up and leaves it alone: it rewrites the line
\* at its recorded row (the line that followed its own) or, when its own line
\* has become the last one, adds a line at the end.  A non-delete edit of a row
\* inside the document keeps the line count, and while no deleteTask has been
\* called every recorded row still holds a line of its task.
C17_IndicesNotUpdated ==
    /\ metadataByTaskId = scannedMetadata
    /\ \A a, b \in Frames :
          LET f1 == frameOf(a)
              f2 == frameOf(b)
              D == split(f2.file)
              W == split(f2.newFile)
          IN  (/\ f1.pc = "done" /\ f1.newText = <<>>
               /\ ownLine(f1.id, split(f1.file)[f1.row + 1])
               /\ f2.fileHandle = f1.fileHandle /\ f2.row > f1.row
               /\ f2.newText # <<>>
               /\ hasRead(f2) /\ f2.file = f1.newFile)
              => /\ f2.pc # "returned"
                 /\ ownLine(f2.id, D[f2.row])
                 /\ W[f2.row] = D[f2.row]
                 /\ W[f2.row + 1] = f2.newText
                 /\ IF f2.row < Len(D) THEN Len(W) = Len(D) ELSE W = Append(D, f2.newText)
    /\ \A ck \in Frames :
          LET f == frameOf(ck)
          IN  (hasRead(f) /\ f.newText # <<>> /\ f.row < Len(split(f.file)))
              => Len(split(f.newFile)) = Len(split(f.file))
    /\ (\A c \in Calls : calls[c].op # "deleteTask")
          => \A id \in {"t1", "t2"} :
                ownLine(id, split(files[boardDoc])[metadataByTaskId[id].rowIndex + 1])

\* t1 deleted, then t2's column changed: t2's old line is still there, and the
\* note that followed it has been replaced by t2's new line
C17_Witness ==
    \E a, b \in Frames :
        LET f1 == frameOf(a)
            f2 == frameOf(b)
        IN  /\ calls[a[1]].op = "deleteTask" /\ f1.pc = "done"
            /\ calls[b[1]].op = "changeColumn" /\ f2.id = "t2" /\ f2.pc = "done"
            /\ f2.file = f1.newFile
            /\ split(f2.file) = <<serialise(scannedTasks["t2"]), noteLine>>
            /\ split(files[boardDoc]) = <<serialise(scannedTasks["t2"]), f2.newText>>
            /\ metadataByTaskId["t2"].rowIndex = 1

----------------------------------------------------------------------------
(* Claims about the held task objects *)

\* the task carries what the operation's updater sets
mutated(op, arg, task) ==
    CASE op = "changeColumn"  -> task.column = arg
      [] op = "markDone"      -> task.done
      [] op = "updateContent" -> task.content = arg
      [] op = "archiveTasks"  -> task.column = archived
      [] op = "deleteTask"    -> task.deleted

\* the frame's updateRow has ended without writing
unwritten(f) == f.pc \in {"returned", "failed"}

\* C18: the held task is mutated before the document is read and is never
\* rolled back.  From the start of updateRow on, the task carries the
\* updater's effect and the text to write is its serialisation; the step in
\* which updateRow ends without writing (the stale-position guard, a failed
\* read, a failed modify) changes neither the task map nor the document; so
\* after it the task still carries the effect while the document, if nothing
\* else wrote it, has at the recorded row the line of the scan or no line.
C18_TaskMutatedNotRolledBack ==
    /\ [](\A c \in Calls : \A k \in 1..Len(calls[c].frames) :
            LET call == calls[c]
                f == call.frames[k]
                D == split(files[f.fileHandle])
            IN  (call.op \in lineEdits
                   /\ \A d \in Calls \ {c} : f.id \notin elems(calls[d].applied))
                => /\ mutated(call.op, call.arg, tasksByTaskId[f.id])
                   /\ tasksByTaskId[f.id] # scannedTasks[f.id]
                   /\ f.newText = serialise(tasksByTaskId[f.id])
                   /\ (unwritten(f) /\ lastWrite[f.fileHandle] = <<>>)
                      => /\ f.row < Len(D) => D[f.row + 1] = serialise(scannedTasks[f.id])
                         /\ f.row < Len(D) => D[f.row + 1] # f.newText
                         /\ f.pc = "returned" => f.row > Len(D))
    /\ [][\A c \in Calls : \A k \in 1..Len(calls[c].frames) :
            (~unwritten(calls[c].frames[k]) /\ unwritten(calls[c]'.frames[k]))
            => UNCHANGED <<files, tasksByTaskId>>]_vars

\* on the cut board, t2's column change returned at the guard and t1's new
\* content failed at the write: both tasks are changed in memory, the board
\* is the one line of the scan
C18_Witness ==
    \E c, d \in Calls :
        /\ calls[c].op = "changeColumn" /\ calls[c].frames[1].id = "t2"
        /\ calls[c].frames[1].pc = "returned" /\ calls[c].pc = "resolved"
        /\ calls[d].op = "updateContent" /\ calls[d].frames[1].id = "t1"
        /\ calls[d].frames[1].pc = "failed" /\ calls[d].pc = "rejected"
        /\ calls[d].ops = <<storeOp("read", boardDoc, TRUE), storeOp("modify", boardDoc, FALSE)>>
        /\ tasksByTaskId["t2"].column = doing
        /\ tasksByTaskId["t1"].content = <<"k">>
        /\ files[boardDoc] = serialise(scannedTasks["t1"])

====
